---- MODULE Spec2Model ----
(***************************************************************************)
(* Payment status reconciliation of the school-payment microservice:       *)
(* createPayment, paymentCallback and normalizeStatus                      *)
(* (backend/src/app.js) and paymentWebhook                                 *)
(* (backend/src/controllers/payment/paymentWebhook.js), over the Order     *)
(* and OrderStatus collections.  Every request handler is a process that   *)
(* takes one step per await; handlers of different requests interleave.    *)
(***************************************************************************)
EXTENDS Integers, Sequences, FiniteSets, TLC

VARIABLES
  orders,     \* the Order collection: _id i |-> document
  statuses,   \* the OrderStatus collection, in insertion order
  h,          \* the request handlers in flight, one per slot
  last,       \* the response sent last, until the next request arrives
  nreq,       \* requests received so far
  ngw,        \* the collect requests the gateway has created so far, in order
  lastWh,     \* history: the last answered webhook and the store it left
  tok,        \* normalizer harness: the input token
  norm,       \* normalizer harness: the result
  webhookLog  \* the WebhookLog collection (WebhookLog.js): no handler writes it

vars == <<orders, statuses, h, last, nreq, ngw, lastWh, tok, norm, webhookLog>>

(***************************************************************************)
(* Bounds of the model.                                                    *)
(***************************************************************************)
MaxPayments == 2    \* create-payment requests
MaxRequests == 3    \* requests of all kinds
MaxInFlight == 2    \* handlers running at the same time
MaxRacing   == 2    \* requests of a run in which handlers run at the same time
MaxLiveRequests == 2    \* requests of a run checked for termination

(***************************************************************************)
(* JavaScript values.  A string is a sequence of one-character strings.    *)
(***************************************************************************)
Undefined == [k |-> "undefined", v |-> <<>>]
Str(s)    == [k |-> "string", v |-> s]
Num(n)    == [k |-> "number", v |-> n]
Arr(a)    == [k |-> "array", v |-> a]      \* an array of strings
NaN       == [k |-> "NaN", v |-> 0]

\* JavaScript truthiness: undefined, '', 0 and NaN are falsy; arrays and objects
\* are truthy, and so is a token, which is a non-empty string.
Truthy(x) ==
  \/ x.k \in {"array", "object", "jwt"}
  \/ x.k = "string" /\ x.v # <<>>
  \/ x.k = "number" /\ x.v # 0

UpperAlpha == <<"A","B","C","D","E","F","G","H","I","J","K","L","M",
                "N","O","P","Q","R","S","T","U","V","W","X","Y","Z">>
LowerAlpha == <<"a","b","c","d","e","f","g","h","i","j","k","l","m",
                "n","o","p","q","r","s","t","u","v","w","x","y","z">>

\* String.prototype.toLowerCase, one character.
LowerChar(c) ==
  IF \E i \in 1..26 : UpperAlpha[i] = c
    THEN LowerAlpha[CHOOSE i \in 1..26 : UpperAlpha[i] = c]
    ELSE c

UpperChar(c) ==
  IF \E i \in 1..26 : LowerAlpha[i] = c
    THEN UpperAlpha[CHOOSE i \in 1..26 : LowerAlpha[i] = c]
    ELSE c

toLowerCase(s) == [i \in 1..Len(s) |-> LowerChar(s[i])]

RECURSIVE Join(_)
\* Array.prototype.toString: the elements joined by ","
Join(a) ==
  IF a = <<>> THEN <<>>
  ELSE IF Len(a) = 1 THEN a[1]
  ELSE a[1] \o <<",">> \o Join(Tail(a))

\* x.toString() of a string or an array of strings
toString(x) == IF x.k = "array" THEN Join(x.v) ELSE x.v

(***************************************************************************)
(* normalizeStatus (app.js 344-384)                                        *)
(***************************************************************************)
W_success    == <<"s","u","c","c","e","s","s">>
W_successful == <<"s","u","c","c","e","s","s","f","u","l">>
W_completed  == <<"c","o","m","p","l","e","t","e","d">>
W_paid       == <<"p","a","i","d">>
W_captured   == <<"c","a","p","t","u","r","e","d">>
W_authorized == <<"a","u","t","h","o","r","i","z","e","d">>
W_failed     == <<"f","a","i","l","e","d">>
W_failure    == <<"f","a","i","l","u","r","e">>
W_declined   == <<"d","e","c","l","i","n","e","d">>
W_rejected   == <<"r","e","j","e","c","t","e","d">>
W_error      == <<"e","r","r","o","r">>
W_cancelled  == <<"c","a","n","c","e","l","l","e","d">>
W_canceled   == <<"c","a","n","c","e","l","e","d">>
W_abandoned  == <<"a","b","a","n","d","o","n","e","d">>
W_aborted    == <<"a","b","o","r","t","e","d">>

normalizeStatus_noLower(status) ==
  IF ~Truthy(status) THEN "pending"
  ELSE LET normalizedStatus == toString(status) IN
    IF normalizedStatus \in {W_success, W_successful, W_completed, W_paid,
                             W_captured, W_authorized} THEN "success"
    ELSE IF normalizedStatus \in {W_failed, W_failure, W_declined,
                                  W_rejected, W_error} THEN "failed"
    ELSE IF normalizedStatus \in {W_cancelled, W_canceled, W_abandoned,
                                  W_aborted} THEN "cancelled"
    ELSE "pending"

normalizeStatus(status) ==
  IF ~Truthy(status) THEN "pending"
  ELSE LET normalizedStatus == toLowerCase(toString(status)) IN
    IF normalizedStatus \in {W_success, W_successful, W_completed, W_paid,
                             W_captured, W_authorized} THEN "success"
    ELSE IF normalizedStatus \in {W_failed, W_failure, W_declined,
                                  W_rejected, W_error} THEN "failed"
    ELSE IF normalizedStatus \in {W_cancelled, W_canceled, W_abandoned,
                                  W_aborted} THEN "cancelled"
    ELSE "pending"

W_pending    == <<"p","e","n","d","i","n","g">>

\* The value of the status enum that a string spells ('pending', 'success',
\* 'failed', 'cancelled': OrderStatus.js 57), "invalid" for any other string
StatusName(s) ==
  CASE s = W_pending   -> "pending"
    [] s = W_success   -> "success"
    [] s = W_failed    -> "failed"
    [] s = W_cancelled -> "cancelled"
    [] OTHER           -> "invalid"

Canonical == {"pending", "success", "failed", "cancelled"}
Terminal  == {"success", "failed", "cancelled"}

(***************************************************************************)
(* Identifiers.  An Order's _id (an ObjectId) and the gateway's            *)
(* collect-request ids are strings of one atom; "?" is the only character  *)
(* the code looks for in them.                                             *)
(***************************************************************************)
OidAtoms == <<"o1", "o2", "o3", "o4">>
GwAtoms  == <<"c1", "c2", "c3", "c4">>

\* order._id.toString()
OrderId(i) == <<OidAtoms[i]>>
\* the collect-request id the gateway assigns to its n-th collect request
GatewayId(n) == <<GwAtoms[n]>>
\* `ref-${Date.now()}-${Math.floor(Math.random() * 1000)}` (app.js 499):
\* two requests of the same millisecond can draw the same one
ReferenceIds == {<<"r1">>}

(***************************************************************************)
(* Handlers and responses                                                  *)
(***************************************************************************)
Slots == 1..MaxInFlight

Idle   == [kind |-> "idle", pc |-> "idle"]
NoResp == [code |-> 0]
NoLast == [kind |-> "none", resp |-> NoResp]
NoWebhook == [kind |-> "none"]
NoDoc == [status |-> "none"]

\* res.status(code).json({error}) / res.status(code).send(text)
ErrorResp(code, error) == [code |-> code, error |-> error]

\* res.status(500).json({error, details: error.message}) (paymentWebhook.js 116-119)
WebhookError(details) ==
  [code |-> 500, error |-> "Internal server error during webhook processing",
   details |-> details]

\* Respond without the return: the response is sent and the handler goes on
Respond_noReturn(s, resp) ==
  /\ h' = h
  /\ last' = [kind |-> h[s].kind, resp |-> resp]

\* The handler of slot s sends its response and returns.
Respond(s, resp) ==
  /\ h' = [h EXCEPT ![s] = Idle]
  /\ last' = [kind |-> h[s].kind, resp |-> resp]

\* The handler of slot s goes on to its next await with locals `next`.
Continue(s, next) ==
  /\ h' = [h EXCEPT ![s] = next]
  /\ UNCHANGED last

At(s, kind, pc) == h[s].kind = kind /\ h[s].pc = pc

(***************************************************************************)
(* createPayment (app.js 445-694)                                          *)
(***************************************************************************)
\* process.env holds the gateway configuration (app.js 406-431)
validateEnvVars == TRUE

DigitChars == <<"0","1","2","3","4","5","6","7","8","9">>
IsDigit(c) == \E d \in 1..10 : DigitChars[d] = c
DigitVal(c) == (CHOOSE d \in 1..10 : DigitChars[d] = c) - 1

RECURSIVE LeadingDigits(_, _)
\* the value of the longest prefix of digits of s, after the value acc
LeadingDigits(s, acc) ==
  IF s = <<>> \/ ~IsDigit(Head(s)) THEN acc
  ELSE LeadingDigits(Tail(s), 10 * acc + DigitVal(Head(s)))

\* parseFloat, on numbers and on strings of an unsigned integer prefix
parseFloat(x) ==
  IF x.k = "number" THEN x
  ELSE IF x.k = "string" /\ x.v # <<>> /\ IsDigit(Head(x.v))
    THEN Num(LeadingDigits(x.v, 0))
  ELSE NaN

isNaN(x) == x.k = "NaN"

\* req.body.amount
AmountInputs ==
  {Undefined, Num(0), Num(2), Num(-1), Str(<<"2">>), Str(<<"2", "x">>), Str(<<"a">>)}

\* req.body.student_info: absent, or an object with a name
StudentInfos ==
  {Undefined} \cup
  {[k |-> "object", name |-> n] : n \in {Undefined, Str(<<"A","s","h","a">>)}}

\* app.js 468: the amount is rejected
InvalidAmount(amount) ==
  \/ ~Truthy(amount)
  \/ isNaN(parseFloat(amount))
  \/ parseFloat(amount).v <= 0

\* app.js 472: the student information is rejected
InvalidStudent(student_info) ==
  \/ student_info.k = "undefined"
  \/ ~Truthy(student_info.name)

\* The body of a successful create-collect-request response: each field the
\* code reads is present or not.  G is the id the gateway assigned.
GatewayData(G) ==
  [collect_request_url : {Undefined, Str(<<"u1">>)},
   Collect_request_url : {Undefined, Str(<<"u2">>)},
   payment_url         : {Undefined, Str(<<"u3">>)},
   redirect_url        : {Undefined, Str(<<"u4">>)},
   collect_request_id  : {Undefined, Str(G)},
   id                  : {Undefined, Str(G)}]

\* a || b
Or(a, b) == IF Truthy(a) THEN a ELSE b

paymentUrl_lastAlias(data) ==
  Or(data.redirect_url,
     Or(data.payment_url, Or(data.Collect_request_url, data.collect_request_url)))

\* app.js 621-624
paymentUrl(data) ==
  Or(data.collect_request_url,
     Or(data.Collect_request_url, Or(data.payment_url, data.redirect_url)))

\* app.js 636-638
collect_request_id(data, reference_id) ==
  Or(data.collect_request_id, Or(data.id, Str(reference_id)))

\* new Order({... amount: parseFloat(amount), status: 'pending' ...}) (app.js 484-493)
NewOrder(amount) == [status |-> "pending", amount |-> parseFloat(amount).v]

\* new OrderStatus({collect_id, order_id, order_amount, status: 'pending', ...})
\* (app.js 644-656) with the schema's defaults (OrderStatus.js 23-72)
NewOrderStatus(collect_id, order, amount) ==
  [collect_id         |-> collect_id,
   order_id           |-> order,
   order_amount       |-> parseFloat(amount).v,
   transaction_amount |-> Undefined,
   payment_mode       |-> Undefined,
   payment_details    |-> "reference_id",
   bank_reference     |-> Undefined,
   status             |-> "pending",
   payment_message    |-> "",
   error_message      |-> ""]

\* POST create-payment requests
CreateRequests ==
  {[kind |-> "create", pc |-> "start", amount |-> amount,
    student_info |-> student_info, order |-> 0,
    data |-> Undefined, collect_request_id |-> Undefined] :
      amount \in AmountInputs, student_info \in StudentInfos}

\* validation, up to the first await (app.js 447-481)
CreateStart(s) ==
  /\ At(s, "create", "start")
  /\ IF ~validateEnvVars
       THEN Respond(s, ErrorResp(500, "Server configuration error"))
     ELSE IF InvalidAmount(h[s].amount)
       THEN Respond(s, ErrorResp(400, "Valid positive amount is required"))
     ELSE IF InvalidStudent(h[s].student_info)
       THEN Respond(s, ErrorResp(400, "Student information with at least a name is required"))
     ELSE Continue(s, [h[s] EXCEPT !.pc = "order_save"])
  /\ UNCHANGED <<orders, statuses, nreq, ngw, lastWh, tok, norm, webhookLog>>

\* await order.save() (app.js 495)
CreateSaveOrder(s) ==
  /\ At(s, "create", "order_save")
  /\ \/ /\ orders' = Append(orders, NewOrder(h[s].amount))
        /\ Continue(s, [h[s] EXCEPT !.pc = "gateway", !.order = Len(orders) + 1])
        /\ lastWh' = NoWebhook
     \/ \* the store fails: caught at app.js 679
        /\ Respond(s, ErrorResp(500, "Failed to initiate payment"))
        /\ UNCHANGED <<orders, lastWh>>
  /\ UNCHANGED <<statuses, nreq, ngw, tok, norm, webhookLog>>

\* The gateway's record of a collect request: the Order named in its
\* callback_url (app.js 503) and whether the answer carried a payment URL
CollectRequest(order, data) ==
  [order |-> order, url |-> Truthy(paymentUrl(data))]

\* the status codes of the gateway's error responses; 0 stands for no
\* response at all (timeout or network error)
GatewayFailures == {0, 400, 401, 404, 500}

\* GatewayFailure with the catch of the whole handler in place of the catch
\* of the call
GatewayFailure_outerCatch(status) == ErrorResp(500, "Failed to initiate payment")

\* catch (apiError) of the gateway call (app.js 561-607)
GatewayFailure(status) ==
  CASE status = 401 -> ErrorResp(401, "Payment gateway authentication failed")
    [] status = 400 -> ErrorResp(400, "Invalid payment request")
    [] status = 404 -> ErrorResp(404, "Payment gateway endpoint not found")
    [] status = 0   -> ErrorResp(504, "Payment gateway timeout")
    [] OTHER        -> ErrorResp(500, "Payment gateway error")

\* CreateGateway that takes the Order back out of the store when the call fails
CreateGateway_rollback(s) ==
  /\ At(s, "create", "gateway")
  /\ \/ /\ \E status \in GatewayFailures : Respond(s, GatewayFailure(status))
        /\ orders' = SubSeq(orders, 1, Len(orders) - 1)
        /\ UNCHANGED ngw
     \/ /\ \E data \in GatewayData(GatewayId(Len(ngw) + 1)) :
             /\ ngw' = Append(ngw, CollectRequest(h[s].order, data))
             /\ Continue(s, [h[s] EXCEPT !.pc = "response", !.data = data])
        /\ UNCHANGED orders
  /\ UNCHANGED <<statuses, nreq, lastWh, tok, norm, webhookLog>>

\* await axios.post(create-collect-request) (app.js 551-607)
CreateGateway(s) ==
  /\ At(s, "create", "gateway")
  /\ \/ \* the call fails: the answer is the mapped error, with no retry
        /\ \E status \in GatewayFailures : Respond(s, GatewayFailure(status))
        /\ UNCHANGED ngw
     \/ \* a 2xx response
        /\ \E data \in GatewayData(GatewayId(Len(ngw) + 1)) :
             /\ ngw' = Append(ngw, CollectRequest(h[s].order, data))
             /\ Continue(s, [h[s] EXCEPT !.pc = "response", !.data = data])
  /\ UNCHANGED <<orders, statuses, nreq, lastWh, tok, norm, webhookLog>>

\* the payment URL and the collect request id of the response (app.js 610-656)
CreateExtract(s) ==
  /\ At(s, "create", "response")
  /\ IF ~Truthy(paymentUrl(h[s].data))
       THEN Respond(s, ErrorResp(500, "Invalid payment gateway response"))
       ELSE \E reference_id \in ReferenceIds :
              Continue(s, [h[s] EXCEPT !.pc = "status_save",
                             !.collect_request_id = collect_request_id(h[s].data, reference_id)])
  /\ UNCHANGED <<orders, statuses, nreq, ngw, lastWh, tok, norm, webhookLog>>

\* await orderStatus.save() and the response (app.js 657-678)
CreateSaveStatus(s) ==
  /\ At(s, "create", "status_save")
  /\ \/ /\ statuses' = Append(statuses,
                         NewOrderStatus(h[s].collect_request_id.v, h[s].order, h[s].amount))
        /\ Respond(s, [code |-> 200,
                       redirect_url |-> paymentUrl(h[s].data),
                       collect_request_url |-> paymentUrl(h[s].data),
                       collect_request_id |-> h[s].collect_request_id,
                       order_id |-> OrderId(h[s].order),
                       status |-> "success"])
        /\ lastWh' = NoWebhook
     \/ \* the store fails: caught at app.js 679
        /\ Respond(s, ErrorResp(500, "Failed to initiate payment"))
        /\ UNCHANGED <<statuses, lastWh>>
  /\ UNCHANGED <<orders, nreq, ngw, tok, norm, webhookLog>>

(***************************************************************************)
(* The store: OrderStatus.findOne, Order.findById and save                 *)
(***************************************************************************)
Min(S) == CHOOSE x \in S : \A y \in S : x <= y

\* FindByCollect without the filter: the first document of the collection
FindByCollect_first(c) == IF statuses = <<>> THEN 0 ELSE 1

\* OrderStatus.findOne({collect_id: c}): the first match, 0 for null
FindByCollect(c) ==
  LET M == {i \in 1..Len(statuses) : statuses[i].collect_id = c}
  IN  IF M = {} THEN 0 ELSE Min(M)

\* a string that casts to an ObjectId
IsObjectId(o) == \E i \in 1..Len(OidAtoms) : o = OrderId(i)

\* OrderStatus.findOne({order_id: o}), o an ObjectId string
FindByOrder(o) ==
  LET M == {i \in 1..Len(statuses) : OrderId(statuses[i].order_id) = o}
  IN  IF M = {} THEN 0 ELSE Min(M)

\* SaveDoc that writes the status and no other path
SaveDoc_statusOnly(stored, read, new) == [stored EXCEPT !.status = new.status]

\* doc.save() of a document that was read as `read` and is now `new`:
\* Mongoose writes the paths whose value was changed, and no other
SaveDoc(stored, read, new) ==
  [f \in DOMAIN stored |-> IF new[f] # read[f] THEN new[f] ELSE stored[f]]

(***************************************************************************)
(* paymentCallback (app.js 111-330)                                        *)
(***************************************************************************)
RECURSIVE SplitHead(_)
\* s.split('?')[0]
SplitHead(s) ==
  IF s = <<>> \/ Head(s) = "?" THEN <<>> ELSE <<Head(s)>> \o SplitHead(Tail(s))

\* app.js 122
collectRequestId(r) == Or(r.EdvironCollectRequestId, r.orderId)

\* app.js 125-126: x.split is not a function when x is an array
CleanThrows(r) == r.orderId.k = "array" \/ collectRequestId(r).k = "array"

\* app.js 125
cleanOrderId(r) == IF Truthy(r.orderId) THEN SplitHead(r.orderId.v) ELSE <<>>

\* app.js 126
cleanCollectRequestId(r) ==
  IF Truthy(collectRequestId(r)) THEN SplitHead(collectRequestId(r).v) ELSE <<>>

\* req.query.orderId
OrderIdParams ==
  {Undefined, Str(<<>>), Str(OrderId(1)), Str(OrderId(2)), Str(<<"?", "x">>),
   Arr(<<OrderId(1), OrderId(1)>>)}

\* req.query.EdvironCollectRequestId
CollectIdParams ==
  {Undefined, Str(<<>>), Str(GatewayId(1)), Str(GatewayId(2) \o <<"?", "x">>)}

\* req.query.status
StatusParams ==
  {Undefined, Str(<<"S","U","C","C","E","S","S">>), Str(W_failed), Str(<<"x">>)}

\* the body of the gateway's answer to the status poll
PollData ==
  {[status |-> Undefined, amount |-> Undefined],
   [status |-> Str(<<"S","u","c","c","e","s","s">>), amount |-> Num(3)],
   [status |-> Str(<<"F","A","I","L","E","D">>), amount |-> Undefined],
   [status |-> Str(<<"P","E","N","D","I","N","G">>), amount |-> Undefined]}

\* GET payment-callback requests
CallbackRequests ==
  {[kind |-> "callback", pc |-> "start", phase |-> "inline",
    orderId |-> o, EdvironCollectRequestId |-> c, status |-> st,
    doc |-> 0, read |-> NoDoc, ord |-> NoDoc, data |-> Undefined, overtaken |-> "none"] :
      o \in OrderIdParams, c \in CollectIdParams, st \in StatusParams}

\* res.redirect(`${FRONTEND_URL}/redirect.html?orderId=..&status=..&EdvironCollectRequestId=..`)
Redirect(orderId, status, collect) ==
  [code |-> 302, orderId |-> orderId, status |-> status, EdvironCollectRequestId |-> collect]

\* app.js 186
RedirectInline(r) == Redirect(cleanOrderId(r), r.status, cleanCollectRequestId(r))

\* app.js 290
RedirectPolled(r) ==
  Redirect(IF cleanOrderId(r) # <<>> THEN cleanOrderId(r) ELSE cleanCollectRequestId(r),
           r.data.status, cleanCollectRequestId(r))

\* RedirectPending as the answer of the outer catch
RedirectPending_error(r) == ErrorResp(500, "Internal Server Error")

\* app.js 325
RedirectPending(r) ==
  Redirect(IF cleanOrderId(r) # <<>> THEN cleanOrderId(r) ELSE cleanCollectRequestId(r),
           Str(<<"P","E","N","D","I","N","G">>), cleanCollectRequestId(r))

\* app.js 141 and 299
HasInline(r) == Truthy(r.status) /\ cleanOrderId(r) # <<>>

\* CallbackStart without the test of the cleaned id: every request goes on
CallbackStart_noIdCheck(s) ==
  /\ At(s, "callback", "start")
  /\ IF CleanThrows(h[s])
       THEN Respond(s, ErrorResp(500, "Internal Server Error"))
     ELSE IF HasInline(h[s])
       THEN Continue(s, [h[s] EXCEPT !.pc = "find_collect"])
     ELSE Continue(s, [h[s] EXCEPT !.pc = "poll", !.phase = "poll"])
  /\ UNCHANGED <<orders, statuses, nreq, ngw, lastWh, tok, norm, webhookLog>>

\* the synchronous prefix (app.js 112-141)
CallbackStart(s) ==
  /\ At(s, "callback", "start")
  /\ IF CleanThrows(h[s])
       THEN Respond(s, ErrorResp(500, "Internal Server Error"))      \* app.js 326-329
     ELSE IF cleanCollectRequestId(h[s]) = <<>>
       THEN Respond(s, ErrorResp(400, "Missing collect request ID")) \* app.js 130-133
     ELSE IF HasInline(h[s])
       THEN Continue(s, [h[s] EXCEPT !.pc = "find_collect"])
     ELSE Continue(s, [h[s] EXCEPT !.pc = "poll", !.phase = "poll"])
  /\ UNCHANGED <<orders, statuses, nreq, ngw, lastWh, tok, norm, webhookLog>>

\* normalizedStatus as the lower-cased token, without normalizeStatus
normalizedStatus_raw(r) ==
  LET token == IF r.phase = "poll" THEN r.data.status ELSE r.status IN
  IF Truthy(token) THEN StatusName(toLowerCase(toString(token))) ELSE "pending"

\* The status the current phase writes (app.js 154, 251, 302)
normalizedStatus(r) ==
  IF r.phase = "poll" THEN normalizeStatus(r.data.status) ELSE normalizeStatus(r.status)

\* CallbackCatch that polls again after a failure in the poll block
CallbackCatch_retry(s) ==
  CASE h[s].phase = "inline" ->
         Continue(s, [h[s] EXCEPT !.pc = "poll", !.phase = "poll", !.doc = 0,
                                  !.read = NoDoc, !.ord = NoDoc, !.overtaken = "none"])
    [] h[s].phase = "poll" ->
         Continue(s, [h[s] EXCEPT !.pc = "poll", !.doc = 0, !.read = NoDoc,
                                  !.ord = NoDoc, !.overtaken = "none",
                                  !.data = Undefined])
    [] OTHER -> Respond(s, RedirectPending(h[s]))

\* A store error (or any exception) in the current phase (app.js 188, 292, 318)
CallbackCatch(s) ==
  CASE h[s].phase = "inline" ->
         Continue(s, [h[s] EXCEPT !.pc = "poll", !.phase = "poll", !.doc = 0,
                                  !.read = NoDoc, !.ord = NoDoc, !.overtaken = "none"])
    [] h[s].phase = "poll" ->
         IF HasInline(h[s])
           THEN Continue(s, [h[s] EXCEPT !.pc = "find_collect", !.phase = "fallback", !.doc = 0,
                                         !.read = NoDoc, !.ord = NoDoc, !.overtaken = "none",
                                         !.data = Undefined])
           ELSE Respond(s, RedirectPending(h[s]))
    [] OTHER -> Respond(s, RedirectPending(h[s]))

\* No OrderStatus was found in the current phase
CallbackNotFound(s) ==
  CASE h[s].phase = "inline" ->
         Continue(s, [h[s] EXCEPT !.pc = "poll", !.phase = "poll"])
    [] h[s].phase = "poll" -> Respond(s, RedirectPolled(h[s]))
    [] OTHER -> Respond(s, RedirectPending(h[s]))

\* await OrderStatus.findOne({ collect_id: cleanCollectRequestId })
\* (app.js 145, 254, 304)
CallbackFindByCollect(s) ==
  /\ At(s, "callback", "find_collect")
  /\ \/ LET i == FindByCollect(cleanCollectRequestId(h[s])) IN
          IF i # 0
            THEN Continue(s, [h[s] EXCEPT !.pc = "save", !.doc = i, !.read = statuses[i]])
          ELSE IF h[s].phase = "poll" /\ cleanOrderId(h[s]) = <<>>
            THEN CallbackNotFound(s)
          ELSE Continue(s, [h[s] EXCEPT !.pc = "find_order"])
     \/ CallbackCatch(s)
  /\ UNCHANGED <<orders, statuses, nreq, ngw, lastWh, tok, norm, webhookLog>>

\* await OrderStatus.findOne({ order_id: cleanOrderId }) (app.js 149, 256, 306)
CallbackFindByOrder(s) ==
  /\ At(s, "callback", "find_order")
  /\ \/ /\ IsObjectId(cleanOrderId(h[s]))
        /\ LET i == FindByOrder(cleanOrderId(h[s])) IN
             IF i # 0
               THEN Continue(s, [h[s] EXCEPT !.pc = "save", !.doc = i, !.read = statuses[i]])
               ELSE CallbackNotFound(s)
     \/ \* a CastError for a string that is no ObjectId, or a store error
        CallbackCatch(s)
  /\ UNCHANGED <<orders, statuses, nreq, ngw, lastWh, tok, norm, webhookLog>>

\* CallbackAssign that assigns nothing
CallbackAssign_keep(r) == r.read

\* CallbackAssign that also takes the polled amount as the order amount
CallbackAssign_orderAmount(r) ==
  [r.read EXCEPT !.status = normalizedStatus(r), !.order_amount = 3]

\* The assignments to the document that was found (app.js 157-170, 261-273, 311-313)
CallbackAssign(r) ==
  LET st == normalizedStatus(r) IN
  CASE r.phase = "inline" ->
         [r.read EXCEPT
            !.status = st,
            !.payment_message =
               CASE st = "success"   -> "Payment completed successfully"
                 [] st = "failed"    -> "Payment transaction failed"
                 [] st = "cancelled" -> "Payment transaction cancelled"
                 [] OTHER            -> @,
            !.error_message =
               CASE st = "failed"    -> "Payment failed"
                 [] st = "cancelled" -> "Payment cancelled by user"
                 [] OTHER            -> @]
    [] r.phase = "poll" ->
         [r.read EXCEPT
            !.status = st,
            !.transaction_amount = IF Truthy(r.data.amount) THEN r.data.amount ELSE @,
            !.payment_message = IF st = "success" THEN "Payment verified successfully" ELSE @,
            !.error_message = IF st = "failed" THEN "Payment verification failed" ELSE @]
    [] OTHER ->
         [r.read EXCEPT
            !.status = st,
            !.error_message = "API verification failed, using callback status"]

\* await orderStatus.save() (app.js 172, 275, 315)
CallbackSave(s) ==
  /\ At(s, "callback", "save")
  /\ \/ /\ statuses' = [statuses EXCEPT
                          ![h[s].doc] = SaveDoc(@, h[s].read, CallbackAssign(h[s]))]
        /\ lastWh' = NoWebhook
        /\ IF h[s].phase = "fallback"
             THEN Respond(s, RedirectPending(h[s]))
             ELSE Continue(s, [h[s] EXCEPT !.pc = "order_find"])
     \/ /\ CallbackCatch(s)
        /\ UNCHANGED <<statuses, lastWh>>
  /\ UNCHANGED <<orders, nreq, ngw, tok, norm, webhookLog>>

\* await Order.findById(orderStatus.order_id) (app.js 176, 279)
CallbackFindOrder(s) ==
  /\ At(s, "callback", "order_find")
  /\ \/ Continue(s, [h[s] EXCEPT !.pc = "order_save", !.ord = orders[h[s].read.order_id]])
     \/ CallbackCatch(s)
  /\ UNCHANGED <<orders, statuses, nreq, ngw, lastWh, tok, norm, webhookLog>>

\* order.status = normalizedStatus; await order.save(); res.redirect
\* (app.js 178-186, 281-290)
CallbackSaveOrder(s) ==
  /\ At(s, "callback", "order_save")
  /\ \/ /\ orders' = [orders EXCEPT ![h[s].read.order_id] =
                        SaveDoc(@, h[s].ord, [h[s].ord EXCEPT !.status = normalizedStatus(h[s])])]
        /\ lastWh' = NoWebhook
        /\ IF h[s].phase = "inline"
             THEN Respond(s, RedirectInline(h[s]))
             ELSE Respond(s, RedirectPolled(h[s]))
     \/ /\ CallbackCatch(s)
        /\ UNCHANGED <<orders, lastWh>>
  /\ UNCHANGED <<statuses, nreq, ngw, tok, norm, webhookLog>>

\* await axios.get(collect-request/<id>) (app.js 202-249)
CallbackPoll(s) ==
  /\ At(s, "callback", "poll")
  /\ \/ \E data \in PollData :
          IF Truthy(data.status)
            THEN Continue(s, [h[s] EXCEPT !.pc = "find_collect", !.data = data])
            ELSE Respond(s, RedirectPending(h[s]))
     \/ \* the request fails or times out
        CallbackCatch(s)
  /\ UNCHANGED <<orders, statuses, nreq, ngw, lastWh, tok, norm, webhookLog>>

(***************************************************************************)
(* paymentWebhook (paymentWebhook.js 46-121)                               *)
(***************************************************************************)
\* a JSON web token signed with `key`
Jwt(key) == [k |-> "jwt", key |-> key]

\* process.env.PG_KEY (paymentWebhook.js 33)
PG_KEY == "PG_KEY"

\* jwt.verify(sign, PG_KEY) returns; it throws for a string that is no token
\* and for a token signed with another key
jwtVerify(sign) == sign.k = "jwt" /\ sign.key = PG_KEY

\* req.body.sign
Signs == {Undefined, Str(<<"x">>), Jwt("other"), Jwt(PG_KEY)}

\* req.body.order_info
OrderInfos ==
  {Undefined} \cup
  [k : {"object"},
   order_id : {Str(GatewayId(1)), Str(GatewayId(2))},
   status : {Str(<<"S","U","C","C","E","S","S">>), Str(W_failed)},
   transaction_amount : {Num(3)}]
  \cup
  \* an order_info that lacks a field
  {[k |-> "object", order_id |-> Str(GatewayId(1)),
    status |-> Undefined, transaction_amount |-> Num(3)],
   [k |-> "object", order_id |-> Str(GatewayId(1)),
    status |-> Str(<<"S","U","C","C","E","S","S">>), transaction_amount |-> Undefined]}

\* POST payment-webhook requests
WebhookRequests ==
  {[kind |-> "webhook", pc |-> "start", order_info |-> oi, sign |-> sg] :
      oi \in OrderInfos, sg \in Signs}

\* the names the handler binds by destructuring order_info (paymentWebhook.js 63-74)
WebhookBound ==
  {"order_id", "order_amount", "transaction_amount", "gateway", "bank_reference",
   "status", "payment_mode", "payment_details", "payment_message", "error_message"}

\* the names the assignments read, in order (paymentWebhook.js 83-93)
WebhookReads ==
  <<"status", "transaction_amount", "payment_mode", "payment_time", "bank_reference",
    "payment_message", "error_message", "order_amount", "gateway", "amount",
    "payment_details">>

\* An assignment reads a name that no declaration binds: a ReferenceError
WebhookReferenceError == \E n \in 1..Len(WebhookReads) : WebhookReads[n] \notin WebhookBound

\* The webhook of slot s is the payload that was answered last, and no
\* handler has written to the store since (history)
SameDelivery(s) ==
  /\ lastWh.kind = "webhook"
  /\ lastWh.order_info = h[s].order_info
  /\ lastWh.sign = h[s].sign

\* WebhookStart without the return of the 403 branch: logs the failed
\* verification and goes on to the lookup
WebhookStart_noReturn(s) ==
  /\ At(s, "webhook", "start")
  /\ IF ~Truthy(h[s].order_info) \/ ~Truthy(h[s].sign)
       THEN Respond(s, ErrorResp(400, "Invalid webhook payload"))
       ELSE Continue(s, [h[s] EXCEPT !.pc = "find"])
  /\ UNCHANGED <<orders, statuses, nreq, ngw, lastWh, tok, norm, webhookLog>>

\* WebhookStart whose signature step lets a payload that reports a failure
\* through without a valid sign
WebhookStart_payloadVerdict(s) ==
  /\ At(s, "webhook", "start")
  /\ IF ~Truthy(h[s].order_info) \/ ~Truthy(h[s].sign)
       THEN Respond(s, ErrorResp(400, "Invalid webhook payload"))
     ELSE IF ~jwtVerify(h[s].sign) /\ h[s].order_info.status # Str(W_failed)
       THEN Respond(s, ErrorResp(403, "Unauthorized webhook"))
     ELSE Continue(s, [h[s] EXCEPT !.pc = "find"])
  /\ UNCHANGED <<orders, statuses, nreq, ngw, lastWh, tok, norm, webhookLog>>

\* payload validation and signature check (paymentWebhook.js 48-60)
WebhookStart(s) ==
  /\ At(s, "webhook", "start")
  /\ IF ~Truthy(h[s].order_info) \/ ~Truthy(h[s].sign)
       THEN Respond(s, ErrorResp(400, "Invalid webhook payload"))
     ELSE IF ~jwtVerify(h[s].sign)
       THEN Respond(s, ErrorResp(403, "Unauthorized webhook"))
     ELSE Continue(s, [h[s] EXCEPT !.pc = "find"])
  /\ UNCHANGED <<orders, statuses, nreq, ngw, lastWh, tok, norm, webhookLog>>

\* The handler of slot s answers a webhook; the callbacks that hold a read of
\* document i learn that a webhook for it was handled meanwhile (history).
WebhookRespond(s, resp, i) ==
  /\ last' = [kind |-> "webhook", resp |-> resp]
  /\ h' = [t \in Slots |->
             IF t = s THEN Idle
             ELSE IF /\ i # 0
                     /\ h[t].kind = "callback" /\ h[t].pc = "save" /\ h[t].doc = i
                     /\ StatusName(toLowerCase(h[s].order_info.status.v)) \in Terminal
               THEN [h[t] EXCEPT !.overtaken = StatusName(toLowerCase(h[s].order_info.status.v))]
             ELSE h[t]]

\* WebhookUpdate as an insert: every delivery stores one more document with
\* the status of the payload
WebhookUpdate_insert(s, i) ==
  /\ statuses' = Append(statuses,
       [statuses[i] EXCEPT !.status = StatusName(toLowerCase(h[s].order_info.status.v))])
  /\ WebhookRespond(s, [code |-> 200, message |-> "Webhook processed successfully"], i)
  /\ UNCHANGED orders

\* WebhookUpdate with every name bound, when orderStatus.save() fails after
\* order.save(): the Order has the new status, the document has not
WebhookUpdate_orderOnly(s, i) ==
  /\ orders' = [orders EXCEPT ![statuses[i].order_id].status =
                  StatusName(toLowerCase(h[s].order_info.status.v))]
  /\ WebhookRespond(s, WebhookError("store error"), i)
  /\ UNCHANGED statuses

\* The update of the document that was found (paymentWebhook.js 82-112):
\* the assignments are made to the document in memory, one of them throws
\* before any save, and the catch answers 500 (paymentWebhook.js 114-120)
WebhookUpdate(s, i) ==
  /\ IF h[s].order_info.status = Undefined
       THEN \* status.toLowerCase() of undefined: a TypeError (paymentWebhook.js 83)
            WebhookRespond(s, WebhookError("Cannot read properties of undefined"), i)
       ELSE /\ WebhookReferenceError
            /\ WebhookRespond(s, WebhookError("payment_time is not defined"), i)
  /\ UNCHANGED <<orders, statuses>>

\* await OrderStatus.findOne({ collect_id: order_id }) and what follows
\* (paymentWebhook.js 77-120)
WebhookFind(s) ==
  /\ At(s, "webhook", "find")
  /\ \/ LET i == FindByCollect(h[s].order_info.order_id.v) IN
          IF i = 0
            THEN /\ WebhookRespond(s, ErrorResp(404, "Order not found"), 0)
                 /\ UNCHANGED <<orders, statuses>>
            ELSE WebhookUpdate(s, i)
     \/ \* the store fails
        /\ WebhookRespond(s, WebhookError("store error"), 0)
        /\ UNCHANGED <<orders, statuses>>
  /\ lastWh' = [kind |-> "webhook", order_info |-> h[s].order_info, sign |-> h[s].sign,
                orders |-> orders', statuses |-> statuses',
                times |-> IF SameDelivery(s) THEN lastWh.times + 1 ELSE 1]
  /\ UNCHANGED <<nreq, ngw, tok, norm, webhookLog>>

(***************************************************************************)
(* Requests arrive                                                         *)
(***************************************************************************)
\* the lowest free slot takes the next request
FreeSlot(s) ==
  /\ h[s] = Idle
  /\ \A t \in Slots : t < s => h[t] # Idle
  /\ nreq < MaxRequests

\* no handler is running
Quiet == \A t \in Slots : h[t] = Idle

Arrive(s, req) ==
  /\ FreeSlot(s)
  /\ h' = [h EXCEPT ![s] = req]
  /\ nreq' = nreq + 1
  /\ last' = NoLast
  /\ UNCHANGED <<orders, statuses, ngw, lastWh, tok, norm, webhookLog>>

\* Requests that arrive one after the other, each when the one before it
\* was answered
CreateArrive(s) ==
  /\ Quiet
  /\ Len(orders) < MaxPayments
  /\ \E req \in CreateRequests : Arrive(s, req)

CallbackArrive(s) == Quiet /\ \E req \in CallbackRequests : Arrive(s, req)

WebhookArrive(s) == Quiet /\ \E req \in WebhookRequests : Arrive(s, req)

\* Requests about the first payment that arrive while others are handled
ConcCallbackRequests ==
  {r \in CallbackRequests :
     /\ r.orderId = Str(OrderId(1))
     /\ Truthy(r.EdvironCollectRequestId)
     /\ r.status \in {Undefined, Str(<<"S","U","C","C","E","S","S">>), Str(W_failed)}}

ConcWebhookRequests ==
  {r \in WebhookRequests :
     /\ r.sign = Jwt(PG_KEY)
     /\ Truthy(r.order_info) /\ r.order_info.order_id = Str(GatewayId(1))
     /\ Truthy(r.order_info.status) /\ r.order_info.transaction_amount # Undefined}

ConcCallbackArrive(s) ==
  nreq < MaxRacing /\ \E req \in ConcCallbackRequests : Arrive(s, req)

ConcWebhookArrive(s) ==
  nreq < MaxRacing /\ \E req \in ConcWebhookRequests : Arrive(s, req)

(***************************************************************************)
(* The specifications                                                      *)
(***************************************************************************)
Init ==
  /\ orders = <<>>
  /\ statuses = <<>>
  /\ h = [s \in Slots |-> Idle]
  /\ last = NoLast
  /\ nreq = 0
  /\ ngw = <<>>
  /\ lastWh = NoWebhook
  /\ tok = Undefined
  /\ norm = "none"
  /\ webhookLog = <<>>

CreateStep(s) ==
  \/ CreateStart(s)
  \/ CreateSaveOrder(s)
  \/ CreateGateway(s)
  \/ CreateExtract(s)
  \/ CreateSaveStatus(s)

CallbackStep(s) ==
  \/ CallbackStart(s)
  \/ CallbackFindByCollect(s)
  \/ CallbackFindByOrder(s)
  \/ CallbackSave(s)
  \/ CallbackFindOrder(s)
  \/ CallbackSaveOrder(s)
  \/ CallbackPoll(s)

WebhookStep(s) ==
  \/ WebhookStart(s)
  \/ WebhookFind(s)

\* Requests of every kind, handled one at a time
Next ==
  \E s \in Slots :
    \/ CreateArrive(s)
    \/ CallbackArrive(s)
    \/ WebhookArrive(s)
    \/ CreateStep(s)
    \/ CallbackStep(s)
    \/ WebhookStep(s)

Spec == Init /\ [][Next]_vars

\* every await of a handler in flight settles: the gateway answers or the
\* request times out (axios timeout, app.js 238 and 557), the store returns
\* or fails, and the event loop then runs the handler's continuation
HandlerStep(s) == CreateStep(s) \/ CallbackStep(s) \/ WebhookStep(s)

\* The same requests, fewer of them in one run
NextLive ==
  \E s \in Slots :
    \/ nreq < MaxLiveRequests /\ CreateArrive(s)
    \/ nreq < MaxLiveRequests /\ CallbackArrive(s)
    \/ nreq < MaxLiveRequests /\ WebhookArrive(s)
    \/ CreateStep(s)
    \/ CallbackStep(s)
    \/ WebhookStep(s)

SpecLive == Init /\ [][NextLive]_vars /\ \A s \in Slots : WF_vars(HandlerStep(s))

\* The store after one create-payment of amount 2 that the gateway has
\* answered with the collect request id c1
InitConc ==
  /\ orders = <<NewOrder(Num(2))>>
  /\ statuses = <<NewOrderStatus(GatewayId(1), 1, Num(2))>>
  /\ h = [s \in Slots |-> Idle]
  /\ last = NoLast
  /\ nreq = 0
  /\ ngw = <<[order |-> 1, url |-> TRUE]>>
  /\ lastWh = NoWebhook
  /\ tok = Undefined
  /\ norm = "none"
  /\ webhookLog = <<>>

\* Callbacks and webhooks for one payment, handled concurrently
NextConc ==
  \E s \in Slots :
    \/ ConcCallbackArrive(s)
    \/ ConcWebhookArrive(s)
    \/ CallbackStep(s)
    \/ WebhookStep(s)

SpecConc == InitConc /\ [][NextConc]_vars

(***************************************************************************)
(* normalizeStatus on its own: every spelling of the tokens below          *)
(***************************************************************************)
\* every way to write the word w in upper and lower case letters
Spellings(w) ==
  {[i \in 1..Len(w) |-> IF m[i] THEN UpperChar(w[i]) ELSE w[i]] :
     m \in [1..Len(w) -> BOOLEAN]}

NormWords ==
  {W_success, W_successful, W_completed, W_paid, W_captured, W_authorized,
   W_failed, W_failure, W_declined, W_rejected, W_error,
   W_cancelled, W_canceled, W_abandoned, W_aborted,
   W_pending, <<"o","k">>, <<"s","u","c","c","e","s">>, <<"p","a","i","d"," ">>,
   <<"f","a","i","l">>, <<"4","0","0">>}

NormInputs ==
  {Str(t) : t \in UNION {Spellings(w) : w \in NormWords}}
    \cup {Undefined, Str(<<>>), Arr(<<W_success, W_failed>>), Arr(<<W_paid>>)}

InitNorm ==
  /\ orders = <<>>
  /\ statuses = <<>>
  /\ h = [s \in Slots |-> Idle]
  /\ last = NoLast
  /\ nreq = 0
  /\ ngw = <<>>
  /\ lastWh = NoWebhook
  /\ tok \in NormInputs
  /\ norm = "none"
  /\ webhookLog = <<>>

Normalize ==
  /\ norm = "none"
  /\ norm' = normalizeStatus(tok)
  /\ UNCHANGED <<orders, statuses, h, last, nreq, ngw, lastWh, tok, webhookLog>>

NextNorm == Normalize

SpecNorm == InitNorm /\ [][NextNorm]_vars

\* Two webhook requests that carry the same sign and different order_info,
\* received together, for the store of InitConc
InitSign ==
  /\ orders = <<NewOrder(Num(2))>>
  /\ statuses = <<NewOrderStatus(GatewayId(1), 1, Num(2))>>
  /\ \E sign \in Signs : \E oi1, oi2 \in OrderInfos :
       /\ oi1 # oi2
       /\ h = [s \in Slots |->
                 CASE s = 1 -> [kind |-> "webhook", pc |-> "start",
                                order_info |-> oi1, sign |-> sign]
                   [] s = 2 -> [kind |-> "webhook", pc |-> "start",
                                order_info |-> oi2, sign |-> sign]
                   [] OTHER -> Idle]
  /\ last = NoLast
  /\ nreq = 2
  /\ ngw = <<[order |-> 1, url |-> TRUE]>>
  /\ lastWh = NoWebhook
  /\ tok = Undefined
  /\ norm = "none"
  /\ webhookLog = <<>>

NextSign == \E s \in Slots : WebhookStep(s)

SpecSign == InitSign /\ [][NextSign]_vars

(***************************************************************************)
(* Properties                                                              *)
(***************************************************************************)
\* the handler of slot s takes the step that leaves (kind, pc)
Leaves(s, kind, pc) ==
  /\ At(s, kind, pc)
  /\ h'[s].kind # kind \/ h'[s].pc # pc

\* the webhook of slot s, found in the store as document i, is answered, and
\* the store did not fail
WebhookAnswers(s, i) ==
  /\ Leaves(s, "webhook", "find")
  /\ i = FindByCollect(h[s].order_info.order_id.v)
  /\ i # 0
  /\ last'.resp # WebhookError("store error")

\* the status the webhook of slot s reports
WebhookStatus(s) == StatusName(toLowerCase(h[s].order_info.status.v))

\* C1: a callback whose inline status normalizes to "failed" leaves a stored
\* status "success" as it is (as stated; the store does not record which
\* channel wrote the status)
C1_CallbackKeepsSuccess ==
  [][\A s \in Slots :
       ( /\ Leaves(s, "callback", "save")
         /\ h[s].phase = "inline"
         /\ normalizeStatus(h[s].status) = "failed"
         /\ statuses[h[s].doc].status = "success" )
       => statuses'[h[s].doc].status = "success"]_vars

\* C2: a validly signed webhook with status "success" for a stored record
\* whose status is "pending" leaves the record with status "success" and
\* with the transaction_amount of the payload (as stated)
C2_WebhookSetsSuccess ==
  [][\A s \in Slots : \A i \in 1..Len(statuses) :
       ( /\ WebhookAnswers(s, i)
         /\ statuses[i].status = "pending"
         /\ WebhookStatus(s) = "success" )
       => /\ statuses'[i].status = "success"
          /\ statuses'[i].transaction_amount =
               parseFloat(h[s].order_info.transaction_amount)]_vars

\* C3: after a validly signed webhook with status SUCCESS for a stored record
\* the Order the record refers to has status "success" as well (as stated)
C3_WebhookSetsOrder ==
  [][\A s \in Slots : \A i \in 1..Len(statuses) :
       ( /\ WebhookAnswers(s, i)
         /\ h[s].order_info.status = Str(<<"S","U","C","C","E","S","S">>) )
       => orders'[statuses[i].order_id].status = "success"]_vars

\* C4 as stated: a webhook that carries a sign that fails verification is
\* answered 403, whatever the payload, and the store is neither read nor
\* written
C4_InvalidSignIs403 ==
  [][\A s \in Slots :
       ( /\ Leaves(s, "webhook", "start")
         /\ Truthy(h[s].sign)
         /\ ~jwtVerify(h[s].sign) )
       => /\ h'[s] = Idle
          /\ last'.resp.code = 403
          /\ UNCHANGED <<orders, statuses>>]_vars

\* C4: a webhook whose sign fails verification never gets to the lookup and
\* changes nothing in the store; it is answered 403 when order_info and sign
\* are both present and 400 when one of them is missing
C4_InvalidSignRejected ==
  /\ [](\A s \in Slots :
          (h[s].kind = "webhook" /\ h[s].pc # "start") => jwtVerify(h[s].sign))
  /\ [][\A s \in Slots :
          ( /\ Leaves(s, "webhook", "start")
            /\ ~jwtVerify(h[s].sign) )
          => /\ h'[s] = Idle
             /\ last'.resp.code =
                  (IF Truthy(h[s].order_info) /\ Truthy(h[s].sign) THEN 403 ELSE 400)
             /\ UNCHANGED <<orders, statuses>>]_vars

C4_Witness ==
  /\ last.kind = "webhook"
  /\ last.resp = ErrorResp(403, "Unauthorized webhook")
  /\ Len(statuses) > 0

\* C5: when the webhook that was answered last is delivered again, with
\* nothing written in between, the store after the second delivery is the
\* store after the first
C5_WebhookIdempotent ==
  [][\A s \in Slots :
       ( /\ Leaves(s, "webhook", "find")
         /\ SameDelivery(s) )
       => /\ orders' = lastWh.orders
          /\ statuses' = lastWh.statuses]_vars

C5_Witness ==
  /\ lastWh.kind = "webhook"
  /\ lastWh.times >= 2
  /\ FindByCollect(lastWh.order_info.order_id.v) # 0
  /\ last.resp # WebhookError("store error")

\* C6: a validly signed webhook overwrites the stored status, whatever an
\* earlier callback has written: a record with a terminal status has the
\* status of the payload after the webhook (as stated)
C6_WebhookOverwrites ==
  [][\A s \in Slots : \A i \in 1..Len(statuses) :
       ( /\ WebhookAnswers(s, i)
         /\ statuses[i].status \in Terminal
         /\ WebhookStatus(s) \in Terminal )
       => statuses'[i].status = WebhookStatus(s)]_vars

\* C7: when a webhook with a terminal status for a pending record is handled
\* between a callback's read of the record and the callback's write, the
\* record has the webhook's status after the write (as stated)
C7_WebhookNotLost ==
  [][\A s \in Slots :
       ( /\ At(s, "callback", "save")
         /\ h'[s].pc = "order_find"
         /\ h[s].read.status = "pending"
         /\ h[s].overtaken \in Terminal )
       => statuses'[h[s].doc].status = h[s].overtaken]_vars

\* the words of the reference mapping, by canonical status
SuccessWords == {W_success, W_successful, W_completed, W_paid, W_captured, W_authorized}
FailedWords == {W_failed, W_failure, W_declined, W_rejected, W_error}
CancelledWords == {W_cancelled, W_canceled, W_abandoned, W_aborted}

\* a and b are the same word but for the case of the letters
SameWord(a, b) ==
  /\ Len(a) = Len(b)
  /\ \A i \in 1..Len(a) : UpperChar(a[i]) = UpperChar(b[i])

\* the reference mapping of a token that is a string or is missing
ReferenceStatus(t) ==
  IF t.k = "undefined" THEN "pending"
  ELSE IF \E w \in SuccessWords : SameWord(t.v, w) THEN "success"
  ELSE IF \E w \in FailedWords : SameWord(t.v, w) THEN "failed"
  ELSE IF \E w \in CancelledWords : SameWord(t.v, w) THEN "cancelled"
  ELSE "pending"

\* C8: normalizeStatus yields one of the four canonical statuses for every
\* token, and for a token that is a string in any letter case, or is empty
\* or missing, the status of the reference mapping
C8_NormalizeReference ==
  norm # "none" =>
    /\ norm \in Canonical
    /\ norm = normalizeStatus(tok)
    /\ tok.k \in {"undefined", "string"} => norm = ReferenceStatus(tok)

C8_Witness ==
  /\ norm = "cancelled"
  /\ tok.k = "string"
  /\ tok.v # toLowerCase(tok.v)

\* the amount is a positive number, or the digits of one
PositiveNumeric(a) ==
  \/ a.k = "number" /\ a.v > 0
  \/ /\ a.k = "string" /\ a.v # <<>>
     /\ \A i \in 1..Len(a.v) : IsDigit(a.v[i])
     /\ LeadingDigits(a.v, 0) > 0

\* the amount the request asks for
Requested(a) == IF a.k = "number" THEN a.v ELSE LeadingDigits(a.v, 0)

\* the gateway's answer carries collect_request_id and collect_request_url
FullAnswer(data) ==
  Truthy(data.collect_request_id) /\ Truthy(data.collect_request_url)

C10_CallbackRedirects ==
  [][\A s \in Slots :
       ( /\ h[s].kind = "callback"
         /\ h'[s] = Idle
         /\ Truthy(h[s].orderId) \/ Truthy(h[s].EdvironCollectRequestId)
         /\ last'.resp # ErrorResp(400, "Missing collect request ID") )
       => last'.resp.code = 302]_vars

\* the parameter is missing or empty
NoId(x) == x = Undefined \/ x = Str(<<>>)

\* C11: a callback request with neither an order id nor a collect id is
\* answered 400 in its first step, before any store access and any gateway
\* call, and a callback that is past its first step has a collect id
C11_CallbackWithoutId ==
  /\ [](\A s \in Slots :
          (h[s].kind = "callback" /\ h[s].pc # "start")
            => ~(NoId(h[s].orderId) /\ NoId(h[s].EdvironCollectRequestId)))
  /\ [][\A s \in Slots :
          ( /\ Leaves(s, "callback", "start")
            /\ NoId(h[s].orderId)
            /\ NoId(h[s].EdvironCollectRequestId) )
          => /\ h'[s] = Idle
             /\ last'.resp.code = 400
             /\ UNCHANGED <<orders, statuses, ngw>>]_vars

C11_Witness ==
  /\ last.kind = "callback"
  /\ last.resp = ErrorResp(400, "Missing collect request ID")
  /\ Len(statuses) > 0

\* C12: a create-payment request whose amount is missing, is not a number
\* or is not greater than zero, or whose student_info has no name, is
\* answered 400 in its first step: no Order, no OrderStatus, no gateway call
\* (as stated)
C12_CreateRejectsInvalid ==
  [][\A s \in Slots :
       ( /\ Leaves(s, "create", "start")
         /\ ~PositiveNumeric(h[s].amount) \/ InvalidStudent(h[s].student_info) )
       => /\ h'[s] = Idle
          /\ last'.resp.code = 400
          /\ UNCHANGED <<orders, statuses, ngw>>]_vars

\* C13: a validly signed webhook whose order_id is the collect_id of no
\* OrderStatus is answered 404, and no document is created or changed
C13_WebhookUnknownId ==
  [][\A s \in Slots :
       ( /\ Leaves(s, "webhook", "find")
         /\ \A i \in 1..Len(statuses) :
               statuses[i].collect_id # h[s].order_info.order_id.v
         /\ last'.resp # WebhookError("store error") )
       => /\ last'.resp = ErrorResp(404, "Order not found")
          /\ UNCHANGED <<orders, statuses>>]_vars

C13_Witness ==
  /\ last.kind = "webhook"
  /\ last.resp = ErrorResp(404, "Order not found")
  /\ Len(statuses) > 0

\* C14: a callback writes its inline status to the record it found only if
\* the stored status is "pending" or is the normalized inline status: a
\* stored terminal status that differs from it is left as it is (as stated)
C14_InlineKeepsTerminal ==
  [][\A s \in Slots :
       ( /\ Leaves(s, "callback", "save")
         /\ h[s].phase \in {"inline", "fallback"}
         /\ statuses[h[s].doc].status \in Terminal
         /\ normalizeStatus(h[s].status) # statuses[h[s].doc].status )
       => statuses'[h[s].doc].status = statuses[h[s].doc].status]_vars

\* C15: the status a callback obtained from the gateway's status poll never
\* replaces a stored terminal status, neither by another terminal status nor
\* by "pending" (as stated; the store does not record which channel wrote
\* the status)
C15_PollKeepsTerminal ==
  [][\A s \in Slots :
       ( /\ Leaves(s, "callback", "save")
         /\ h[s].phase = "poll"
         /\ statuses[h[s].doc].status \in Terminal
         /\ normalizeStatus(h[s].data.status) # statuses[h[s].doc].status )
       => statuses'[h[s].doc].status = statuses[h[s].doc].status]_vars

\* the three errors the claim names
GatewayUnavailable == ErrorResp(504, "Payment gateway timeout")
GatewayInvalidRequest == ErrorResp(400, "Invalid payment request")
GatewayAuthFailure == ErrorResp(401, "Payment gateway authentication failed")

\* the create-payment handler of slot s ends at the gateway call
GatewayCallFails(s) ==
  /\ Leaves(s, "create", "gateway")
  /\ h'[s] = Idle

\* C16 as stated: a failed gateway call is answered with one of three
\* errors: unavailable, invalid request, authentication failure
C16_ThreeGatewayErrors ==
  [][\A s \in Slots :
       GatewayCallFails(s)
       => last'.resp \in {GatewayUnavailable, GatewayInvalidRequest, GatewayAuthFailure}]_vars

\* C16: a failed gateway call ends the request at once, with no second call
\* and no OrderStatus, and is answered with one of five errors: unavailable
\* (504), invalid request (400), authentication failure (401), endpoint not
\* found (404), gateway error (500)
C16_FiveGatewayErrors ==
  [][\A s \in Slots :
       /\ GatewayCallFails(s)
          => /\ last'.resp \in {GatewayUnavailable, GatewayInvalidRequest, GatewayAuthFailure,
                                ErrorResp(404, "Payment gateway endpoint not found"),
                                ErrorResp(500, "Payment gateway error")}
             /\ UNCHANGED <<orders, statuses, ngw>>
       /\ Leaves(s, "create", "gateway") => h'[s] = Idle \/ h'[s].pc = "response"]_vars

C16_Witness ==
  /\ last.kind = "create"
  /\ last.resp = ErrorResp(500, "Payment gateway error")
  /\ Len(orders) > 0
  /\ orders[Len(orders)].status = "pending"
  /\ \A i \in 1..Len(statuses) : statuses[i].order_id # Len(orders)

\* the gateway's answer carries no payment URL under any of the four names
NoUrl(data) ==
  /\ ~Truthy(data.collect_request_url) /\ ~Truthy(data.Collect_request_url)
  /\ ~Truthy(data.payment_url) /\ ~Truthy(data.redirect_url)

\* the Order o has no OrderStatus
Orphan(o) == \A i \in 1..Len(statuses) : statuses[i].order_id # o

\* the gateway accepted the collect request of Order o and answered it
\* without a payment URL
AnsweredWithoutUrl(o) ==
  \E n \in 1..Len(ngw) : ngw[n].order = o /\ ~ngw[n].url

\* C17: when the gateway's answer carries no payment URL the request is
\* answered with the invalid-response error and its Order stays "pending";
\* and a callback for such an Order whose status poll reports a terminal
\* status leaves the Order with that status (as stated)
C17_NoUrlReconcilable ==
  [][\A s \in Slots :
       /\ ( /\ Leaves(s, "create", "response")
            /\ NoUrl(h[s].data) )
          => /\ last'.resp = ErrorResp(500, "Invalid payment gateway response")
             /\ orders'[h[s].order].status = "pending"
       /\ \A o \in 1..Len(orders) :
            ( /\ h[s].kind = "callback" /\ h[s].phase = "poll"
              /\ h[s].data # Undefined
              /\ h'[s] = Idle
              /\ last'.resp = RedirectPolled(h[s])
              /\ cleanOrderId(h[s]) = OrderId(o)
              /\ orders[o].status = "pending"
              /\ Orphan(o)
              /\ AnsweredWithoutUrl(o)
              /\ normalizeStatus(h[s].data.status) \in Terminal )
            => orders'[o].status = normalizeStatus(h[s].data.status)]_vars

\* the order_info lacks one of its fields
PartialInfo(oi) ==
  oi.order_id = Undefined \/ oi.status = Undefined \/ oi.transaction_amount = Undefined

\* C18: the handler tests that every field of order_info is present before
\* it writes: a validly signed webhook for a stored document whose
\* order_info lacks a field is turned away as an invalid payload, with a
\* client error, and no field of any OrderStatus or Order is changed (as
\* stated)
C18_PartialRejected ==
  [][\A s \in Slots : \A i \in 1..Len(statuses) :
       ( /\ WebhookAnswers(s, i)
         /\ PartialInfo(h[s].order_info) )
       => /\ last'.resp.code \in {400, 422}
          /\ UNCHANGED <<orders, statuses>>]_vars

\* C19: a webhook step that does not end the request with 200 leaves the
\* Order and OrderStatus collections exactly as they were, and a webhook is
\* answered 200, 400, 403, 404 or 500
C19_FailedWebhookWritesNothing ==
  [][\A s \in Slots :
       ( /\ h[s].kind = "webhook"
         /\ h'[s] # h[s] )
       => /\ h'[s] = Idle => last'.resp.code \in {200, 400, 403, 404, 500}
          /\ ~(h'[s] = Idle /\ last'.resp.code = 200) => UNCHANGED <<orders, statuses>>]_vars

C19_Witness ==
  /\ last.kind = "webhook"
  /\ last.resp = WebhookError("payment_time is not defined")
  /\ lastWh.kind = "webhook"
  /\ FindByCollect(lastWh.order_info.order_id.v) # 0
  /\ lastWh.statuses = statuses /\ lastWh.orders = orders

\* the four canonical statuses, as words
CanonicalWords == {W_pending, W_success, W_failed, W_cancelled}

\* C20: the status of every callback redirect is one of the four canonical
\* statuses, whatever the case of its letters (as stated)
C20_RedirectStatusCanonical ==
  (last.kind = "callback" /\ last.resp.code = 302)
    => /\ last.resp.status.k = "string"
       /\ toLowerCase(last.resp.status.v) \in CanonicalWords

\* the answer is a redirect with the status pending, in any letter case
PendingRedirect(resp) ==
  /\ resp.code = 302
  /\ resp.status.k = "string"
  /\ toLowerCase(resp.status.v) = W_pending

\* C21: when the status poll of a callback fails or its answer has no status
\* the callback goes on without a polled status, and a callback that ends
\* without one after its poll ends with a redirect whose status is pending
C21_PollFailureRedirectsPending ==
  [][\A s \in Slots :
       /\ ( /\ Leaves(s, "callback", "poll")
            /\ h'[s].kind = "callback" /\ h'[s].data = Undefined )
          => h'[s].phase = "fallback"
       /\ ( /\ h[s].kind = "callback"
            /\ h[s].pc = "poll" \/ h[s].phase = "fallback"
            /\ h'[s] = Idle )
          => PendingRedirect(last'.resp)]_vars

C21_Witness ==
  /\ last.kind = "callback"
  /\ PendingRedirect(last.resp)
  /\ last.resp.EdvironCollectRequestId = GatewayId(1)
  /\ Len(statuses) > 0

\* the Order of the record i
OrderOf(i) == orders[statuses[i].order_id]

\* C22: whenever no handler is in flight, every Order that has an
\* OrderStatus record has the status of that record
C22_OrderMirrorsStatus ==
  (\A s \in Slots : h[s] = Idle)
    => \A i \in 1..Len(statuses) : OrderOf(i).status = statuses[i].status

\* C23: a callback whose inline status normalizes to pending does not end
\* in its inline step, found record or not: it goes on to the status poll
C23_PendingInlineStillPolls ==
  [][\A s \in Slots :
       ( /\ h[s].kind = "callback"
         /\ h[s].pc # "start"
         /\ h[s].phase = "inline"
         /\ Truthy(h[s].status)
         /\ normalizedStatus(h[s]) = "pending" )
       => h'[s] # Idle]_vars

\* C24: a validly signed webhook whose status is a recognized word for a
\* terminal state, sent for a stored record, leaves the record and its Order
\* with the canonical state normalizeStatus assigns to that word
C24_WebhookStoresCanonical ==
  [][\A s \in Slots : \A i \in 1..Len(statuses) :
       ( /\ WebhookAnswers(s, i)
         /\ Truthy(h[s].order_info.status)
         /\ h[s].order_info.transaction_amount # Undefined
         /\ normalizeStatus(h[s].order_info.status) \in Terminal )
       => /\ statuses'[i].status = normalizeStatus(h[s].order_info.status)
          /\ orders'[statuses'[i].order_id].status =
               normalizeStatus(h[s].order_info.status)]_vars

\* C25: in every reachable state the status of every OrderStatus record and
\* of every Order is one of pending, success, failed, cancelled
C25_StatusCanonical ==
  /\ \A i \in 1..Len(statuses) : statuses[i].status \in Canonical
  /\ \A o \in 1..Len(orders) : orders[o].status \in Canonical

C25_Witness ==
  /\ last.kind = "callback"
  /\ last.resp.code = 302
  /\ last.resp.status = Str(<<"x">>)
  /\ \E i \in 1..Len(statuses) :
       /\ statuses[i].collect_id = last.resp.EdvironCollectRequestId
       /\ statuses[i].status = "pending"
       /\ OrderOf(i).status = "pending"

\* C26: after a status poll that failed, what the callback does with its
\* inline status leaves the status of the stored record as it was
C26_FallbackKeepsStatus ==
  [][\A s \in Slots : \A i \in 1..Len(statuses) :
       ( /\ h[s].kind = "callback"
         /\ h[s].phase = "fallback" )
       => statuses'[i].status = statuses[i].status]_vars

\* the callback of slot s, in the given phase, found a record whose status
\* was pending
FoundPending(s, phase) ==
  /\ h[s].kind = "callback"
  /\ h[s].phase = phase
  /\ h[s].doc # 0
  /\ h[s].read.status = "pending"

\* C27: a callback whose inline status normalizes to a terminal state and
\* whose record is found with status pending saves the record with that
\* terminal state, and ends its inline step with the record and the owning
\* Order both in that state
C27_InlineTerminalApplied ==
  [][\A s \in Slots :
       ( /\ FoundPending(s, "inline")
         /\ normalizeStatus(h[s].status) \in Terminal )
       => /\ ( Leaves(s, "callback", "save") /\ h'[s].pc = "order_find" )
             => statuses'[h[s].doc].status = normalizeStatus(h[s].status)
          /\ ( Leaves(s, "callback", "order_save") /\ h'[s] = Idle )
             => /\ last'.resp = RedirectInline(h[s])
                /\ statuses'[h[s].doc].status = normalizeStatus(h[s].status)
                /\ orders'[statuses'[h[s].doc].order_id].status =
                     normalizeStatus(h[s].status)]_vars

C27_Witness ==
  /\ last.kind = "callback"
  /\ last.resp.code = 302
  /\ last.resp.status = Str(W_failed)
  /\ \E i \in 1..Len(statuses) :
       /\ statuses[i].status = "failed"
       /\ statuses[i].error_message = "Payment failed"
       /\ OrderOf(i).status = "failed"

\* C28: a callback whose poll returned a status and whose record, looked up
\* by collect id, else by order id, is found with status pending saves the
\* record with the normalized polled status and with the polled amount as
\* transaction_amount when the poll carried one, and ends with the record
\* and the owning Order both in that state
C28_PolledStatusApplied ==
  [][\A s \in Slots :
       FoundPending(s, "poll")
       => /\ h[s].doc = ( IF FindByCollect(cleanCollectRequestId(h[s])) # 0
                            THEN FindByCollect(cleanCollectRequestId(h[s]))
                            ELSE FindByOrder(cleanOrderId(h[s])) )
          /\ ( Leaves(s, "callback", "save") /\ h'[s].pc = "order_find" )
             => /\ statuses'[h[s].doc].status = normalizeStatus(h[s].data.status)
                /\ statuses'[h[s].doc].transaction_amount =
                     ( IF Truthy(h[s].data.amount)
                         THEN h[s].data.amount
                         ELSE statuses[h[s].doc].transaction_amount )
          /\ ( /\ Leaves(s, "callback", "order_save")
               /\ h'[s] = Idle
               /\ last'.resp = RedirectPolled(h[s])
               \* the redirect of line 290, not that of line 325
               /\ RedirectPolled(h[s]) # RedirectPending(h[s]) )
             => /\ statuses'[h[s].doc].status = normalizeStatus(h[s].data.status)
                /\ orders'[statuses'[h[s].doc].order_id].status =
                     normalizeStatus(h[s].data.status)]_vars

C28_Witness ==
  /\ last.kind = "callback"
  /\ last.resp.code = 302
  /\ last.resp.status = Str(<<"S","u","c","c","e","s","s">>)
  /\ \E i \in 1..Len(statuses) :
       /\ statuses[i].status = "success"
       /\ statuses[i].transaction_amount = Num(3)
       /\ statuses[i].payment_message = "Payment verified successfully"
       /\ OrderOf(i).status = "success"

\* the handler of slot s moves on within its request
Moves(s, kind) ==
  /\ h[s].kind = kind
  /\ h'[s].kind = kind
  /\ h'[s] # h[s]

\* C29: no handler comes back to a gateway call. A create-payment reaches
\* the create-collect-request call only from the save of its Order and never
\* again once it has been there; a callback reaches the status poll only
\* from its inline step and never again once it has been there; and one step
\* hands the gateway at most one collect request
C29_NoGatewayRetry ==
  [][/\ Len(ngw') <= Len(ngw) + 1
     /\ \A s \in Slots :
          /\ ( Moves(s, "create") /\ h'[s].pc = "gateway" )
             => h[s].pc = "order_save"
          /\ ( Moves(s, "create") /\ h[s].pc \in {"gateway", "response", "status_save"} )
             => h'[s].pc \in {"response", "status_save"} /\ h'[s].pc # h[s].pc
          /\ ( Moves(s, "create") /\ h[s].pc # "gateway" )
             => ngw' = ngw
          /\ ( Moves(s, "callback") /\ h'[s].pc = "poll" )
             => h[s].phase = "inline"
          /\ ( Moves(s, "callback") /\ h[s].phase # "inline" )
             => h'[s].phase # "inline" /\ h'[s].pc # "poll"
          /\ ( Moves(s, "callback") /\ h[s].phase = "fallback" )
             => h'[s].phase = "fallback"]_vars

C29_Witness ==
  /\ last.kind = "create"
  /\ last.resp = GatewayUnavailable
  /\ Len(orders) = 1
  /\ ngw = <<>>

\* C30: an OrderStatus record comes into being only in the last step of a
\* create-payment, one record with status pending and the amount of the
\* request as order_amount, for an Order that create-payment made; a step of
\* a callback (its poll included) or of a webhook leaves the number of Orders
\* and of OrderStatus records, and the keys of every record, as they were;
\* and no step at all removes a record
C30_OnlyCreateInserts ==
  [][/\ Len(orders') >= Len(orders)
     /\ Len(statuses') >= Len(statuses)
     /\ \A i \in 1..Len(statuses) :
          /\ statuses'[i].collect_id = statuses[i].collect_id
          /\ statuses'[i].order_id = statuses[i].order_id
          /\ statuses'[i].order_amount = statuses[i].order_amount
     /\ Len(statuses') # Len(statuses)
        => \E s \in Slots :
             /\ Leaves(s, "create", "status_save")
             /\ Len(statuses') = Len(statuses) + 1
             /\ Len(orders') = Len(orders)
             /\ statuses'[Len(statuses')].status = "pending"
             /\ PositiveNumeric(h[s].amount)
             /\ statuses'[Len(statuses')].order_amount = Requested(h[s].amount)
             /\ statuses'[Len(statuses')].order_id = h[s].order
     /\ Len(orders') # Len(orders)
        => \E s \in Slots :
             /\ Leaves(s, "create", "order_save")
             /\ Len(orders') = Len(orders) + 1
             /\ Len(statuses') = Len(statuses)
     /\ \A s \in Slots :
          ( h[s].kind \in {"callback", "webhook"} /\ h'[s] # h[s] )
          => /\ Len(orders') = Len(orders)
             /\ Len(statuses') = Len(statuses)]_vars

\* C31: the collect_id of every OrderStatus record is the id the gateway
\* assigned to the collect request made for the record's Order
C31_KeyedByGatewayId ==
  \A i \in 1..Len(statuses) :
    \E n \in 1..Len(ngw) :
      /\ ngw[n].order = statuses[i].order_id
      /\ statuses[i].collect_id = GatewayId(n)

\* C32: no two OrderStatus records share a collect_id, no two refer to the
\* same Order, and every one refers to an Order that exists
C32_OneToOne ==
  /\ \A i, j \in 1..Len(statuses) :
       i # j => /\ statuses[i].collect_id # statuses[j].collect_id
                /\ statuses[i].order_id # statuses[j].order_id
  /\ \A i \in 1..Len(statuses) : statuses[i].order_id \in 1..Len(orders)

\* C33: a handler in flight is eventually done; the step that ends it sends
\* its response, the one response of the request: no step of a handler that
\* goes on sends one, and a handler starts only with the arrival of a request
C33_ExactlyOneResponse ==
  /\ [][\A s \in Slots :
          /\ ( h[s] # Idle /\ h'[s] = Idle )
             => last'.kind = h[s].kind /\ last'.resp.code # 0
          /\ ( h[s] # Idle /\ h'[s] # Idle /\ h'[s] # h[s] )
             => last' = last
          /\ ( h[s] = Idle /\ h'[s] # Idle )
             => h'[s].pc = "start" /\ last' = NoLast /\ nreq' = nreq + 1]_vars
  /\ \A s \in Slots : (h[s] # Idle) ~> (h[s] = Idle)

C33_Witness ==
  /\ nreq = MaxLiveRequests
  /\ \A s \in Slots : h[s] = Idle
  /\ last.kind = "webhook"
  /\ last.resp.code = 500
  /\ Len(statuses) > 0

\* C34: the step that answers a webhook request, whatever the answer, leaves
\* one more WebhookLog record, holding the payload of the request
C34_WebhookLogged ==
  [][\A s \in Slots :
       ( h[s].kind = "webhook" /\ h'[s] = Idle )
       => /\ Len(webhookLog') = Len(webhookLog) + 1
          /\ webhookLog'[Len(webhookLog')].payload =
               [order_info |-> h[s].order_info, sign |-> h[s].sign]]_vars

\* the create-payment of Order o is over, and its gateway call failed or was
\* answered without a payment URL
GatewayStepFailed(o) ==
  /\ \A s \in Slots : ~(h[s].kind = "create" /\ h[s].order = o)
  /\ \/ \A n \in 1..Len(ngw) : ngw[n].order # o
     \/ AnsweredWithoutUrl(o)

\* C35: an Order whose create-payment failed at the gateway call, or was
\* answered without a payment URL, is in the store with status pending and
\* has no OrderStatus, in every state from then on; the failing step itself
\* writes nothing, and no step removes an Order
C35_FailedCreateKeepsOrder ==
  /\ [](\A o \in 1..Len(orders) :
          GatewayStepFailed(o) => orders[o].status = "pending" /\ Orphan(o))
  /\ [][/\ Len(orders') >= Len(orders)
        /\ \A s \in Slots :
             ( \/ GatewayCallFails(s)
               \/ Leaves(s, "create", "response") /\ NoUrl(h[s].data) )
             => /\ h'[s] = Idle
                /\ last'.resp.code >= 400
                /\ UNCHANGED <<orders, statuses>>
                /\ \E o \in 1..Len(orders) :
                     o = h[s].order /\ GatewayStepFailed(o)']_vars

C35_Witness ==
  /\ last.kind = "callback"
  /\ last.resp.code = 302
  /\ last.resp.orderId = OrderId(1)
  /\ AnsweredWithoutUrl(1)
  /\ GatewayStepFailed(1)
  /\ orders[1].status = "pending"
  /\ Orphan(1)
  /\ Len(statuses) > 0

\* C36: a step of a callback that applies the status polled for the collect
\* id it was given changes no OrderStatus record with another collect_id, and no Order
\* but the one of a record with that collect_id
C36_PolledStatusOnlyForItsId ==
  [][\A s \in Slots :
       ( /\ h[s].kind = "callback" /\ h[s].phase = "poll"
         /\ Truthy(h[s].EdvironCollectRequestId)
         \* every record is keyed by the id the gateway gave its payment
         /\ C31_KeyedByGatewayId )
       => /\ \A i \in 1..Len(statuses) :
               statuses'[i] # statuses[i]
               => statuses[i].collect_id = cleanCollectRequestId(h[s])
          /\ \A o \in 1..Len(orders) :
               orders'[o] # orders[o]
               => \E i \in 1..Len(statuses) :
                    /\ statuses[i].order_id = o
                    /\ statuses[i].collect_id = cleanCollectRequestId(h[s])]_vars

\* the webhook of slot s is at its signature step: order_info and sign are
\* both present
AtSignatureStep(s) ==
  /\ At(s, "webhook", "start")
  /\ Truthy(h[s].order_info) /\ Truthy(h[s].sign)

FrameFields ==
  {"collect_id", "order_id", "order_amount", "bank_reference", "payment_mode",
   "payment_details"}

====
